---- MODULE Spec2Model ----
(***************************************************************************)
(* Model of the scenario engine of src/stream.py (Simulador programador de *)
(* planta Noel): parameter resolution (obtener_param), the material base,  *)
(* calcular_escenario (hour allocation, inventory rollforward, weekly      *)
(* summary) and the scenario comparison.                                   *)
(*                                                                         *)
(* Numbers.  The program computes in IEEE-754 doubles (pandas / numpy /    *)
(* Python floats).  A number is modelled as a pair <<n, d>>: the rational  *)
(* n/d in lowest terms with d > 0, or one of the three special values      *)
(* <<1,0>> (+inf), <<-1,0>> (-inf), <<0,0>> (NaN).  Rounding error and the *)
(* sign of zero are not modelled; division by zero, the propagation of     *)
(* inf/NaN, NaN-skipping sums and NaN-false comparisons are.               *)
(*                                                                         *)
(* Text.  A string is modelled as a sequence of chunks (each chunk a TLA+  *)
(* string); a blank chunk is " ".  str.strip, str.replace and float() act  *)
(* on the chunks.                                                          *)
(***************************************************************************)
EXTENDS Integers, Sequences, FiniteSets, TLC

----------------------------------------------------------------------------
(* Floating-point values                                                   *)

Abs(x) == IF x < 0 THEN -x ELSE x

Sign(x) == IF x > 0 THEN 1 ELSE IF x < 0 THEN -1 ELSE 0

RECURSIVE Gcd(_, _)
Gcd(a, b) == IF b = 0 THEN a ELSE Gcd(b, a % b)

\* the pair n/d in lowest terms, d > 0; d = 0 gives +inf, -inf or NaN
Norm(n, d) ==
    IF d = 0 THEN <<Sign(n), 0>>
    ELSE LET g == Gcd(Abs(n), Abs(d))
             s == IF d < 0 THEN -1 ELSE 1
         IN  <<s * (n \div g), s * (d \div g)>>

F(k) == <<k, 1>>

Zero == <<0, 1>>

NaN == <<0, 0>>

PosInf == <<1, 0>>

NegInf == <<-1, 0>>

IsNaN(a) == a = NaN

IsInf(a) == a[2] = 0 /\ a[1] # 0

IsFinite(a) == a[2] > 0

\* the integer part of n/d rounded down, d > 0
FloorDiv(n, d) == IF n >= 0 THEN n \div d ELSE -((-n + d - 1) \div d)

\* a + b of two doubles
Add(a, b) ==
    IF IsNaN(a) \/ IsNaN(b) THEN NaN
    ELSE IF IsInf(a) THEN (IF IsInf(b) /\ b # a THEN NaN ELSE a)
    ELSE IF IsInf(b) THEN b
    ELSE LET g  == Gcd(a[2], b[2])
             l  == (a[2] \div g) * b[2]
             fa == FloorDiv(a[1], a[2])
             fb == FloorDiv(b[1], b[2])
             fr == (a[1] - fa * a[2]) * (b[2] \div g) + (b[1] - fb * b[2]) * (a[2] \div g)
             h  == Gcd(fr, l)
         IN  <<(fa + fb) * (l \div h) + (fr \div h), l \div h>>

Neg(a) == <<-a[1], a[2]>>

\* a - b of two doubles
Sub(a, b) == Add(a, Neg(b))

\* a * b of two doubles (inf * 0 = NaN)
Mul(a, b) ==
    IF a[2] = 0 \/ b[2] = 0 THEN Norm(a[1] * b[1], 0)
    ELSE LET g1 == Gcd(Abs(a[1]), b[2])
             g2 == Gcd(Abs(b[1]), a[2])
         IN  IF a[1] = 0 \/ b[1] = 0 THEN Zero
             ELSE Norm((a[1] \div g1) * (b[1] \div g2), (a[2] \div g2) * (b[2] \div g1))

\* a / b of two doubles as numpy divides: x/0 = +-inf, 0/0 = NaN, x/inf = 0
Div(a, b) ==
    IF IsNaN(a) \/ IsNaN(b) THEN NaN
    ELSE IF b[1] = 0 THEN Norm(a[1], 0)
    ELSE IF b[2] = 0 THEN (IF a[2] = 0 THEN NaN ELSE Zero)
    ELSE IF a[2] = 0 THEN Norm(a[1] * b[1], 0)
    ELSE Mul(a, Norm(b[2], b[1]))

\* a < b of two doubles: false when either is NaN
Lt(a, b) ==
    IF IsNaN(a) \/ IsNaN(b) THEN FALSE
    ELSE IF a = b THEN FALSE
    ELSE IF IsInf(a) THEN a = NegInf
    ELSE IF IsInf(b) THEN b = PosInf
    ELSE LET fa == FloorDiv(a[1], a[2])
             fb == FloorDiv(b[1], b[2])
             g  == Gcd(a[2], b[2])
         IN  IF fa # fb THEN fa < fb
             ELSE (a[1] - fa * a[2]) * (b[2] \div g) < (b[1] - fb * b[2]) * (a[2] \div g)

Gt(a, b) == Lt(b, a)

Le(a, b) == Lt(a, b) \/ (a = b /\ ~IsNaN(a))

\* Python's max(x, y): y only when y > x
PyMax(x, y) == IF Gt(y, x) THEN y ELSE x

\* Python's min(x, y): y only when y < x
PyMin(x, y) == IF Lt(y, x) THEN y ELSE x

\* Series.fillna(v)
FillNa(a, v) == IF IsNaN(a) THEN v ELSE a

\* sum of a sequence of doubles skipping NaN (pandas sum, skipna, min_count=0)
RECURSIVE SumSkipNa(_)
SumSkipNa(s) ==
    IF s = <<>> THEN Zero
    ELSE IF IsNaN(Head(s)) THEN SumSkipNa(Tail(s))
    ELSE Add(Head(s), SumSkipNa(Tail(s)))

\* groupby 'first': the first value of the group that is not NaN
RECURSIVE FirstNotNa(_)
FirstNotNa(s) ==
    IF s = <<>> THEN NaN
    ELSE IF IsNaN(Head(s)) THEN FirstNotNa(Tail(s))
    ELSE Head(s)

----------------------------------------------------------------------------
(* Text values                                                             *)

Blank == " "

\* str.strip(): leading and trailing blanks removed
RECURSIVE LStrip(_)
LStrip(t) == IF t # <<>> /\ Head(t) = Blank THEN LStrip(Tail(t)) ELSE t

RECURSIVE RStrip(_)
RStrip(t) ==
    IF t # <<>> /\ t[Len(t)] = Blank THEN RStrip(SubSeq(t, 1, Len(t) - 1)) ELSE t

Strip(t) == RStrip(LStrip(t))

\* str.replace(old, new) for one-character old and new
Replace(t, old, new) == [k \in 1..Len(t) |-> IF t[k] = old THEN new ELSE t[k]]

DigitChars == {"0", "1", "2", "3", "4", "5", "6", "7", "8", "9"}

DigitVal(c) ==
    CASE c = "0" -> 0 [] c = "1" -> 1 [] c = "2" -> 2 [] c = "3" -> 3
      [] c = "4" -> 4 [] c = "5" -> 5 [] c = "6" -> 6 [] c = "7" -> 7
      [] c = "8" -> 8 [] c = "9" -> 9 [] OTHER -> 0

\* character order used when strings are compared (sort keys)
Ord(c) ==
    CASE c = Blank -> 0 [] c = "," -> 1 [] c = "-" -> 2 [] c = "." -> 3
      [] c \in DigitChars -> 10 + DigitVal(c)
      [] c = "A" -> 30 [] c = "B" -> 31 [] c = "C" -> 32
      [] OTHER -> 50

\* s < t for strings, lexicographically
RECURSIVE TextLt(_, _)
TextLt(s, t) ==
    IF t = <<>> THEN FALSE
    ELSE IF s = <<>> THEN TRUE
    ELSE IF Ord(Head(s)) # Ord(Head(t)) THEN Ord(Head(s)) < Ord(Head(t))
    ELSE TextLt(Tail(s), Tail(t))

\* the value of a run of digits read as an integer
RECURSIVE DigitsVal(_)
DigitsVal(t) ==
    IF t = <<>> THEN 0 ELSE 10 * DigitsVal(SubSeq(t, 1, Len(t) - 1)) + DigitVal(t[Len(t)])

RECURSIVE Pow10(_)
Pow10(k) == IF k = 0 THEN 1 ELSE 10 * Pow10(k - 1)

AllDigits(t) == \A k \in 1..Len(t) : t[k] \in DigitChars

\* float(text): [ok, val]; blanks around the number are accepted, then an
\* optional sign, digits and at most one decimal point; anything else fails
ParseFloat(t) ==
    LET u    == Strip(t)
        neg  == u # <<>> /\ Head(u) = "-"
        v    == IF neg THEN Tail(u) ELSE u
        dots == {k \in 1..Len(v) : v[k] = "."}
        ip   == IF dots = {} THEN v ELSE SubSeq(v, 1, (CHOOSE k \in dots : TRUE) - 1)
        fp   == IF dots = {} THEN <<>>
                ELSE SubSeq(v, (CHOOSE k \in dots : TRUE) + 1, Len(v))
        good == /\ Cardinality(dots) <= 1
                /\ AllDigits(ip) /\ AllDigits(fp)
                /\ Len(ip) + Len(fp) > 0
        mag  == Norm(DigitsVal(ip) * Pow10(Len(fp)) + DigitsVal(fp), Pow10(Len(fp)))
    IN  IF good THEN [ok |-> TRUE, val |-> IF neg THEN Neg(mag) ELSE mag]
        ELSE [ok |-> FALSE, val |-> NaN]

\* a spreadsheet cell: a number or a string
NumCell(a) == [t |-> "num", num |-> a, str |-> <<>>]

StrCell(s) == [t |-> "str", num |-> NaN, str |-> s]

----------------------------------------------------------------------------
(* State                                                                   *)

VARIABLES
    pc,                         \* position of the script
    df_prod, df_cap, df_disp_raw, df_params,   \* the four loaded sheets
    horas_por_turno, costo_fijo_param, tasa_costo_capital,
    df_base_materiales, suma_inv_promedio_objetivo, suma_valor_inicial_maestro,
    esc,                        \* index of the scenario run in progress
    df_final,                   \* the run's material-week table
    i, prev_material, prev_final_und, prev_final_val,  \* rollforward loop
    total_qty, qty_sold,        \* locals of the last loop iteration
    lista_materiales, lista_semanal,
    tabla_comparativa, mejores, ahorro

vars == <<pc, df_prod, df_cap, df_disp_raw, df_params,
          horas_por_turno, costo_fijo_param, tasa_costo_capital,
          df_base_materiales, suma_inv_promedio_objetivo, suma_valor_inicial_maestro,
          esc, df_final, i, prev_material, prev_final_und, prev_final_val,
          total_qty, qty_sold, lista_materiales, lista_semanal, tabla_comparativa, mejores, ahorro>>

----------------------------------------------------------------------------
(* Parameter resolver                                                      *)

NomHoras == <<"Horas por turno">>

NomCostoFijo == <<"Costo fijo">>

NomCapital == <<"Costo Capital">>

DefHoras == 8

DefCostoFijo == 742373394

\* 0.0029
DefCapital == <<29, 10000>>

\* df_params['Parametro'].astype(str).str.strip()
StripParametro(tabla) == [k \in 1..Len(tabla) |-> [tabla[k] EXCEPT !.Parametro = Strip(@)]]

\* obtener_param that falls back to the default when float() fails
ObtenerParamDefaultSiFalla(tabla, nombre, default) ==
    LET fila == SelectSeq(tabla, LAMBDA r : r.Parametro = nombre)
    IN  IF fila = <<>> THEN default
        ELSE LET valor == fila[1].Valor
                 v2    == IF valor.t = "str"
                          THEN StrCell(Replace(valor.str, ",", ".")) ELSE valor
             IN  IF v2.t = "str"
                 THEN IF ParseFloat(v2.str).ok
                      THEN NumCell(ParseFloat(v2.str).val) ELSE default
                 ELSE v2

\* obtener_param(nombre, default): the first row named nombre, its value as a
\* float (comma read as decimal point), the value itself when float() fails,
\* default when there is no such row
obtener_param(tabla, nombre, default) ==
    LET fila == SelectSeq(tabla, LAMBDA r : r.Parametro = nombre)
    IN  IF fila = <<>> THEN default
        ELSE LET valor == fila[1].Valor
                 v2    == IF valor.t = "str"
                          THEN StrCell(Replace(valor.str, ",", ".")) ELSE valor
             IN  IF v2.t = "str"
                 THEN IF ParseFloat(v2.str).ok
                      THEN NumCell(ParseFloat(v2.str).val) ELSE v2
                 ELSE v2

----------------------------------------------------------------------------
(* Table helpers                                                           *)

\* the values of a sequence, each once, in order of first appearance
RECURSIVE Distinct(_)
Distinct(s) ==
    IF s = <<>> THEN <<>>
    ELSE LET d == Distinct(SubSeq(s, 1, Len(s) - 1))
         IN  IF \E k \in 1..Len(d) : d[k] = s[Len(s)] THEN d ELSE Append(d, s[Len(s)])

Col(df, c) == [k \in 1..Len(df) |-> df[k][c]]

\* ascending order of doubles as sort_values orders a column: NaN last
NumBefore(a, b) == IF IsNaN(a) THEN FALSE ELSE IF IsNaN(b) THEN TRUE ELSE Lt(a, b)

\* a sorts strictly before b under the sort keys `by`: "Material,Semana_Num"
\* (Material, then Semana_Num), or one numeric column
RowBefore(by, a, b) ==
    IF by = "Material,Semana_Num"
    THEN \/ TextLt(a.Material, b.Material)
         \/ a.Material = b.Material /\ NumBefore(a.Semana_Num, b.Semana_Num)
    ELSE NumBefore(a[by], b[by])

RECURSIVE Insert(_, _, _)
Insert(sorted, r, by) ==
    IF sorted = <<>> THEN <<r>>
    ELSE IF RowBefore(by, r, sorted[Len(sorted)])
         THEN Append(Insert(SubSeq(sorted, 1, Len(sorted) - 1), r, by), sorted[Len(sorted)])
         ELSE Append(sorted, r)

\* the rows left in the order they have (no sort)
SinOrdenar(df, by) == df

\* df.sort_values(by): ascending, stable, NaN last
RECURSIVE sort_values(_, _)
sort_values(df, by) ==
    IF df = <<>> THEN <<>>
    ELSE Insert(sort_values(SubSeq(df, 1, Len(df) - 1), by), df[Len(df)], by)

----------------------------------------------------------------------------
(* Material base (pre-processing)                                          *)

NuevasCols == {"Unidades_por_pallet", "Inventario_inicial", "Valor_inventario_inicial",
               "Costo_variable_unitario", "Inventario_promedio"}

\* df_cap with Material stripped and every missing optional column set to 0
PrepararCap(cap) ==
    [cols |-> cap.cols \cup NuevasCols,
     rows |-> [k \in 1..Len(cap.rows) |->
                 [c \in DOMAIN cap.rows[k] |->
                     IF c = "Material" THEN Strip(cap.rows[k][c])
                     ELSE IF c \in NuevasCols /\ c \notin cap.cols THEN Zero
                     ELSE cap.rows[k][c]]]]

PrepararProd(prod) == [k \in 1..Len(prod) |-> [prod[k] EXCEPT !.Material = Strip(@)]]

PrepararDisp(disp) ==
    [disp EXCEPT !.rows = [k \in 1..Len(disp.rows) |-> [disp.rows[k] EXCEPT !.Semana = Strip(@)]]]

\* the capacity attributes of a demand row that matches no capacity row
CapNaN == [Material |-> <<>>, Unidades_por_hora |-> NaN, Unidades_por_pallet |-> NaN,
           Inventario_inicial |-> NaN, Valor_inventario_inicial |-> NaN,
           Costo_variable_unitario |-> NaN, Inventario_promedio |-> NaN]

\* a demand row joined to the capacity row c
FilaUnida(p, c) ==
    [Material |-> p.Material, Semana |-> p.Semana, Demanda_semanal |-> p.Demanda_semanal,
     Unidades_por_hora |-> c.Unidades_por_hora,
     Unidades_por_pallet |-> c.Unidades_por_pallet,
     Inventario_inicial |-> c.Inventario_inicial,
     Valor_inventario_inicial |-> c.Valor_inventario_inicial,
     Costo_variable_unitario |-> c.Costo_variable_unitario,
     Inventario_promedio |-> c.Inventario_promedio]

\* df_prod.merge(df_cap[cols_capacidad], on='Material', how='left'): one row per
\* matching capacity row, one row of NaN attributes when there is none
RECURSIVE MergeCap(_, _)
MergeCap(prod, caprows) ==
    IF prod = <<>> THEN <<>>
    ELSE LET p == Head(prod)
             m == SelectSeq(caprows, LAMBDA r : r.Material = p.Material)
             joined == IF m = <<>> THEN <<FilaUnida(p, CapNaN)>>
                       ELSE [k \in 1..Len(m) |-> FilaUnida(p, m[k])]
         IN  joined \o MergeCap(Tail(prod), caprows)

\* pd.to_numeric(text, errors='coerce')
ToNumeric(t) == IF ParseFloat(t).ok THEN ParseFloat(t).val ELSE NaN

\* Horas_Necesarias with the division guarded: 0 when Unidades por hora is 0
HorasNecesariasGuardada(demanda, uph) == IF uph = Zero THEN Zero ELSE Div(demanda, uph)

\* df_base_materiales['Demanda semanal'] / df_base_materiales['Unidades por hora']
HorasNecesarias(demanda, uph) == Div(demanda, uph)

\* df_base_materiales after lines 167-176
ConstruirBaseMateriales(prod, cap) ==
    LET merged == MergeCap(PrepararProd(prod), PrepararCap(cap).rows)
    IN  [k \in 1..Len(merged) |->
            LET r == merged[k]
                sem == Strip(r.Semana)
            IN  [Material |-> r.Material, Semana |-> sem,
                 Demanda_semanal |-> r.Demanda_semanal,
                 Unidades_por_hora |-> r.Unidades_por_hora,
                 Unidades_por_pallet |-> r.Unidades_por_pallet,
                 Inventario_inicial |-> r.Inventario_inicial,
                 Valor_inventario_inicial |-> r.Valor_inventario_inicial,
                 Costo_variable_unitario |-> r.Costo_variable_unitario,
                 Inventario_promedio |-> r.Inventario_promedio,
                 Semana_Num |-> ToNumeric(sem),
                 Horas_Necesarias |-> HorasNecesarias(r.Demanda_semanal, r.Unidades_por_hora)]]

\* groupby('Material')[c].first().sum()
SumaPrimeros(df, c) ==
    LET mats == Distinct(Col(df, "Material"))
    IN  SumSkipNa([k \in 1..Len(mats) |->
            FirstNotNa(Col(SelectSeq(df, LAMBDA r : r.Material = mats[k]), c))])

----------------------------------------------------------------------------
(* calcular_escenario: hour allocation (lines 180-221)                     *)

FilasSemana(df, sem) == SelectSeq(df, LAMBDA r : r.Semana = sem)

\* resumen_semanal['Turnos disponibles'] of week sem: demand-implied, or the
\* availability row of the week (0 when the week has none)
TurnosDisponibles(total, sem, disp, modo_demanda, hpt) ==
    IF modo_demanda THEN Div(total, hpt)
    ELSE LET m == SelectSeq(disp, LAMBDA d : d.Semana = sem)
         IN  FillNa(IF m = <<>> THEN NaN ELSE m[1].Turnos_disponibles, Zero)

\* df_final['Participacion']: Horas_Necesarias / Total_Horas_Req_Semana, NaN as 0
Participacion(horas, total) == FillNa(Div(horas, total), Zero)

\* Horas_Finales_Asignadas without the floor at 0
HorasFinalesSinPiso(horas, ajuste) == Add(horas, ajuste)

\* df_final['Horas_Finales_Asignadas']: max(Horas_Necesarias + Horas_Ajuste, 0)
HorasFinales(horas, ajuste) == PyMax(Add(horas, ajuste), Zero)

\* x['Costo fijo']/x['Unidades_A_Producir'] if x['Unidades_A_Producir']>0 else 0
CostoFijoUnitario(cf, unidades) == IF Gt(unidades, Zero) THEN Div(cf, unidades) ELSE Zero

\* df_final before the rollforward: one row per row of the base, with the week's
\* totals, the allocation and the costs, sorted by (Material, Semana_Num), the
\* six rollforward columns set to 0.0
AsignarHoras(base, disp, modo_demanda, hpt, cf) ==
    LET Total(sem) == SumSkipNa(Col(FilasSemana(base, sem), "Horas_Necesarias"))
        Ajuste(r) ==
            Mul(Participacion(r.Horas_Necesarias, Total(r.Semana)),
                Sub(Mul(TurnosDisponibles(Total(r.Semana), r.Semana, disp, modo_demanda, hpt),
                        hpt),
                    Total(r.Semana)))
        Unidades(r) == Mul(HorasFinales(r.Horas_Necesarias, Ajuste(r)), r.Unidades_por_hora)
        unds == [k \in 1..Len(base) |-> Unidades(base[k])]
        UnidadesSemana(sem) ==
            SumSkipNa([k \in 1..Len(base) |-> IF base[k].Semana = sem THEN unds[k] ELSE NaN])
        Fila(k) ==
            LET r == base[k]
                total == Total(r.Semana)
                turnos == TurnosDisponibles(total, r.Semana, disp, modo_demanda, hpt)
                cap == Mul(turnos, hpt)
                dif == Sub(cap, total)
                part == Participacion(r.Horas_Necesarias, total)
                ajuste == Mul(part, dif)
                hfa == HorasFinales(r.Horas_Necesarias, ajuste)
                und == Mul(hfa, r.Unidades_por_hora)
                undaj == Mul(ajuste, r.Unidades_por_hora)
                upp == IF r.Unidades_por_pallet = Zero THEN F(1) ELSE r.Unidades_por_pallet
                cfu == CostoFijoUnitario(cf, UnidadesSemana(r.Semana))
            IN  [Material |-> r.Material, Semana |-> r.Semana,
                 Demanda_semanal |-> r.Demanda_semanal,
                 Unidades_por_hora |-> r.Unidades_por_hora,
                 Unidades_por_pallet |-> upp,
                 Inventario_inicial |-> r.Inventario_inicial,
                 Valor_inventario_inicial |-> r.Valor_inventario_inicial,
                 Costo_variable_unitario |-> r.Costo_variable_unitario,
                 Inventario_promedio |-> r.Inventario_promedio,
                 Semana_Num |-> r.Semana_Num,
                 Horas_Necesarias |-> r.Horas_Necesarias,
                 Total_Horas_Req_Semana |-> total,
                 Turnos_disponibles |-> turnos,
                 Horas_Capacidad_Total |-> cap,
                 Diferencia_Horas |-> dif,
                 Participacion |-> part,
                 Horas_Ajuste |-> ajuste,
                 Horas_Finales_Asignadas |-> hfa,
                 Unidades_A_Producir |-> und,
                 Unidades_Ajuste |-> undaj,
                 Costo_variable_total |-> Mul(und, r.Costo_variable_unitario),
                 Pallets_Requeridos |-> Div(und, upp),
                 Pallets_Extra |-> Div(undaj, upp),
                 Costo_fijo_unitario |-> cfu,
                 Costo_unitario_total |-> Add(r.Costo_variable_unitario, cfu),
                 Inv_Inicial_Und |-> Zero, Inv_Inicial_Valor |-> Zero,
                 Costo_Promedio_Ponderado |-> Zero, Inv_Final_Und |-> Zero,
                 Inv_Final_Valor |-> Zero, Costo_Mercancia_Vendida |-> Zero]
    IN  sort_values([k \in 1..Len(base) |-> Fila(k)], "Material,Semana_Num")

----------------------------------------------------------------------------
(* calcular_escenario: inventory rollforward (lines 223-262)               *)

\* the opening state always taken from the previous row
AperturaSinCorte(row, prev_mat, prev_und, prev_val) == <<prev_und, prev_val>>

\* (qty_ini, val_ini) of a row: the material's static opening inventory on its
\* first row, the previous row's closing state otherwise
Apertura(row, prev_mat, prev_und, prev_val) ==
    IF row.Material # prev_mat
    THEN <<row.Inventario_inicial, row.Valor_inventario_inicial>>
    ELSE <<prev_und, prev_val>>

\* the weighted-average cost with the division unguarded
WacSinGuarda(total_val, tq, cost_prod) == Div(total_val, tq)

\* wac = total_val / total_qty if total_qty > 0 else cost_prod (tq: total_qty)
Wac(total_val, tq, cost_prod) ==
    IF Gt(tq, Zero) THEN Div(total_val, tq) ELSE cost_prod

\* qty_sold = min(row['Demanda semanal'], total_qty)
QtySold(demanda, tq) == PyMin(demanda, tq)

\* one iteration of the loop on row `row`: the row with its six columns written,
\* and the locals total_qty and qty_sold
PasoRollforward(row, prev_mat, prev_und, prev_val) ==
    LET ini == Apertura(row, prev_mat, prev_und, prev_val)
        qty_ini == ini[1]
        val_ini == ini[2]
        qty_prod == row.Unidades_A_Producir
        cost_prod == row.Costo_unitario_total
        val_prod == Mul(qty_prod, cost_prod)
        tot_qty == Add(qty_ini, qty_prod)
        total_val == Add(val_ini, val_prod)
        wac == Wac(total_val, tot_qty, cost_prod)
        sold == QtySold(row.Demanda_semanal, tot_qty)
        cogs_total == Mul(sold, wac)
        qty_final == Sub(tot_qty, sold)
        val_final == Mul(qty_final, wac)
    IN  [row |-> [row EXCEPT !.Inv_Inicial_Und = qty_ini,
                             !.Inv_Inicial_Valor = val_ini,
                             !.Costo_Promedio_Ponderado = wac,
                             !.Inv_Final_Und = qty_final,
                             !.Inv_Final_Valor = val_final,
                             !.Costo_Mercancia_Vendida = cogs_total],
         total_qty |-> tot_qty,
         qty_sold |-> sold]

----------------------------------------------------------------------------
(* calcular_escenario: weekly summary (lines 264-295)                      *)

\* (Inv_Final_Valor * tasa_costo_capital).clip(lower=0)
CostoCapital(inv_final_valor, tasa) ==
    LET c == Mul(inv_final_valor, tasa) IN IF Lt(c, Zero) THEN Zero ELSE c

\* x['Inv_Final_Valor'] / x['Inv_Final_Und'] if x['Inv_Final_Und'] > 0 else 0
CostoUnitarioPromedioInventario(valor, und) ==
    IF Gt(und, Zero) THEN Div(valor, und) ELSE Zero

\* resumen_agrupado of a finished df_final
ResumenAgrupado(df, nombre, hpt, cf, tasa, suma_valor_inicial, suma_inv_promedio) ==
    LET sems == Distinct(Col(df, "Semana"))
        Grupo(sem) ==
            LET g == FilasSemana(df, sem)
            IN  [Semana |-> sem,
                 Unidades_A_Producir |-> SumSkipNa(Col(g, "Unidades_A_Producir")),
                 Pallets_Requeridos |-> SumSkipNa(Col(g, "Pallets_Requeridos")),
                 Pallets_Extra |-> SumSkipNa(Col(g, "Pallets_Extra")),
                 Turnos_disponibles |-> FirstNotNa(Col(g, "Turnos_disponibles")),
                 Total_Horas_Req_Semana |-> FirstNotNa(Col(g, "Total_Horas_Req_Semana")),
                 Diferencia_Horas |-> FirstNotNa(Col(g, "Diferencia_Horas")),
                 Semana_Num |-> FirstNotNa(Col(g, "Semana_Num")),
                 Costo_variable_total |-> SumSkipNa(Col(g, "Costo_variable_total")),
                 Costo_Mercancia_Vendida |-> SumSkipNa(Col(g, "Costo_Mercancia_Vendida")),
                 Inv_Final_Valor |-> SumSkipNa(Col(g, "Inv_Final_Valor")),
                 Inv_Final_Und |-> SumSkipNa(Col(g, "Inv_Final_Und"))]
        ag == sort_values([k \in 1..Len(sems) |-> Grupo(sems[k])], "Semana_Num")
        Fila(k) ==
            LET r == ag[k]
                previo == FillNa(IF k = 1 THEN NaN ELSE ag[k - 1].Inv_Final_Valor,
                                 suma_valor_inicial)
                variacion == Sub(r.Inv_Final_Valor, previo)
                cupi == CostoUnitarioPromedioInventario(r.Inv_Final_Valor, r.Inv_Final_Und)
            IN  [Semana |-> r.Semana,
                 Unidades_A_Producir |-> r.Unidades_A_Producir,
                 Pallets_Requeridos |-> r.Pallets_Requeridos,
                 Pallets_Extra |-> r.Pallets_Extra,
                 Turnos_disponibles |-> r.Turnos_disponibles,
                 Total_Horas_Req_Semana |-> r.Total_Horas_Req_Semana,
                 Diferencia_Horas |-> r.Diferencia_Horas,
                 Semana_Num |-> r.Semana_Num,
                 Costo_variable_total |-> r.Costo_variable_total,
                 Costo_Mercancia_Vendida |-> r.Costo_Mercancia_Vendida,
                 Inv_Final_Valor |-> r.Inv_Final_Valor,
                 Inv_Final_Und |-> r.Inv_Final_Und,
                 Costo_fijo_total |-> cf,
                 Costo_fijo_unitario |-> CostoFijoUnitario(cf, r.Unidades_A_Producir),
                 Turnos_necesarios |-> Div(r.Total_Horas_Req_Semana, hpt),
                 Costo_total_produccion |-> Add(cf, r.Costo_variable_total),
                 Costo_Capital |-> CostoCapital(r.Inv_Final_Valor, tasa),
                 Inv_Previo_Calculo |-> previo,
                 Variacion_inventario |-> variacion,
                 EBITDA |-> r.Costo_Mercancia_Vendida,
                 Flujo_de_caja |-> Sub(r.Costo_Mercancia_Vendida, variacion),
                 Costo_Unitario_Promedio_Inventario |-> cupi,
                 Valor_Inventario_Inv_Promedio |-> Mul(cupi, suma_inv_promedio),
                 Escenario |-> nombre]
    IN  [k \in 1..Len(ag) |-> Fila(k)]

----------------------------------------------------------------------------
(* Scenario comparison (lines 318-360)                                     *)

RECURSIVE Concat(_)
Concat(ss) == IF ss = <<>> THEN <<>> ELSE Head(ss) \o Concat(Tail(ss))

\* order of the scenario names as strings
NombreOrden(n) ==
    CASE n = "No Paro (Full)" -> 1 [] n = "Paro Programado" -> 2
      [] n = "Siguiendo Demanda" -> 3 [] OTHER -> 4

\* tabla_comparativa: one row per scenario of df_master_semanal, in the order
\* of the scenario names, with the totals, the delta and Impacto Total FCL
TablaComparativa(master_semanal) ==
    LET escs == Distinct(Col(master_semanal, "Escenario"))
        Fila(e) ==
            LET g == SelectSeq(master_semanal, LAMBDA r : r.Escenario = e)
                df_esc == sort_values(g, "Semana_Num")
                delta == Sub(df_esc[Len(df_esc)].Valor_Inventario_Inv_Promedio,
                             df_esc[1].Valor_Inventario_Inv_Promedio)
                cmv == SumSkipNa(Col(g, "Costo_Mercancia_Vendida"))
                cc == SumSkipNa(Col(g, "Costo_Capital"))
            IN  [Escenario |-> e,
                 Orden |-> F(NombreOrden(e)),
                 CMV_Total |-> cmv,
                 EBITDA_Total |-> SumSkipNa(Col(g, "EBITDA")),
                 Costo_Capital_Total |-> cc,
                 Delta_Valor_Inv |-> delta,
                 Impacto_Total_FCL |-> Add(Add(cmv, cc), delta)]
    IN  sort_values([k \in 1..Len(escs) |-> Fila(escs[k])], "Orden")

\* the comparison sorted by Impacto Total FCL, largest first
MejoresDescendente(tabla) ==
    LET asc == sort_values(tabla, "Impacto_Total_FCL")
    IN  [k \in 1..Len(asc) |-> asc[Len(asc) + 1 - k]]

\* mejores = tabla_comparativa.sort_values('Impacto Total FCL')
Mejores(tabla) == sort_values(tabla, "Impacto_Total_FCL")

\* ahorro = mejores.iloc[-1]['Impacto Total FCL'] - mejores.iloc[0]['Impacto Total FCL']
Ahorro(m) == Sub(m[Len(m)].Impacto_Total_FCL, m[1].Impacto_Total_FCL)

----------------------------------------------------------------------------
(* Inputs                                                                  *)

\* weekly demands explored: 0..MaxDemanda units
MaxDemanda == 2

\* opening inventories explored for material A: k units worth 4*k, k in
\* 0..MaxInvInicial, and no units with a recorded value of 4
MaxInvInicial == 1

\* the scenario runs are explored for fixed costs up to this value
MaxCostoFijo == 1000

Sem1 == <<"2", "0", "2", "5", "0", "1">>

Sem2 == <<"2", "0", "2", "5", "0", "2">>

MatA == <<"A">>

MatB == <<"B">>

DemandaVals == {F(k) : k \in 0..MaxDemanda}

\* sheet 'Produccion': the rows of each material, latest week first, B before A;
\* B's code is followed by a blank and B's demand in week 2 is 1
ProdTablas ==
    LET RowsA(d1, d2) == <<[Material |-> MatA, Semana |-> Sem2, Demanda_semanal |-> d2],
                           [Material |-> MatA, Semana |-> Sem1, Demanda_semanal |-> d1]>>
        RowsB(d1, d2) == <<[Material |-> MatB \o <<Blank>>, Semana |-> Sem2, Demanda_semanal |-> d2],
                           [Material |-> MatB \o <<Blank>>, Semana |-> Sem1, Demanda_semanal |-> d1]>>
    IN  {RowsA(a1, a2) : a1 \in DemandaVals, a2 \in DemandaVals}
        \cup {RowsB(b1, F(1)) \o RowsA(a1, a2) :
                a1 \in DemandaVals, a2 \in DemandaVals, b1 \in DemandaVals}

CapCols == {"Material", "Unidades_por_hora"} \cup NuevasCols

\* (Inventario inicial, Valor inventario inicial) of material A; the sheet does
\* not tie the value to the units, so a value with no units is an input too
AperturasA == {<<k, 4 * k>> : k \in 0..MaxInvInicial} \cup {<<0, 4>>}

\* sheet 'Capacidad': one row per material; B has no opening inventory and
\* neither material a target average inventory
CapTablas ==
    LET RowA(uph, o) == [Material |-> MatA, Unidades_por_hora |-> F(uph),
                         Unidades_por_pallet |-> F(0),
                         Inventario_inicial |-> F(o[1]),
                         Valor_inventario_inicial |-> F(o[2]),
                         Costo_variable_unitario |-> F(2), Inventario_promedio |-> F(0)]
        RowB == [Material |-> MatB, Unidades_por_hora |-> F(1),
                 Unidades_por_pallet |-> F(4),
                 Inventario_inicial |-> F(0), Valor_inventario_inicial |-> F(0),
                 Costo_variable_unitario |-> F(3), Inventario_promedio |-> F(0)]
    IN  {[cols |-> CapCols, rows |-> <<RowA(uph, o), RowB>>] :
            uph \in {0, 1}, o \in AperturasA}

TurnosVals == {F(-1), <<3, 2>>}

\* sheet 'Disponibilidad': a row for week 1 (its code preceded by a blank) and
\* possibly one for week 2; 1.5 or -1 shifts with stoppages, 3 without
DispTablas(colsets) ==
    LET Row1(t) == [Semana |-> <<Blank>> \o Sem1, Paro_programado |-> t, No_paro |-> F(3)]
        Row2 == [Semana |-> Sem2, Paro_programado |-> <<3, 2>>, No_paro |-> F(3)]
    IN  {[cols |-> c, rows |-> <<Row1(t)>> \o r2] :
            c \in colsets, t \in TurnosVals, r2 \in {<<>>, <<Row2>>}}

DispColsTodas == {"Semana", "Paro_programado", "No_paro"}

\* sheet 'Parametros' of the main exploration: 'Costo fijo' (name preceded by a
\* blank) 24 and 'Costo Capital' "0,5"; hours per shift takes its default
ParamsPrincipal == <<[Parametro |-> <<Blank>> \o NomCostoFijo, Valor |-> NumCell(F(24))],
                     [Parametro |-> NomCapital, Valor |-> StrCell(<<"0", ",", "5">>)]>>

\* the rows a sheet 'Parametros' may hold for one parameter name
FilasParam(nombre, num) ==
    {<<>>,
     <<[Parametro |-> nombre, Valor |-> NumCell(num)]>>,
     <<[Parametro |-> nombre \o <<Blank>>, Valor |-> StrCell(<<"7", ",", "5">>)]>>,
     <<[Parametro |-> nombre, Valor |-> StrCell(<<"n", ",", "a">>)]>>,
     <<[Parametro |-> nombre, Valor |-> NumCell(num)],
       [Parametro |-> nombre, Valor |-> StrCell(<<"n", ",", "a">>)]>>}

ParamTablas ==
    {h \o c \o k : h \in FilasParam(NomHoras, F(8)),
                   c \in FilasParam(NomCostoFijo, F(800)),
                   k \in FilasParam(NomCapital, <<1, 100>>)}

\* the input of the worked example: one material, 10 units/hour, no opening
\* inventory, demand 100 and 150, 10 shifts in both weeks
EjemploProd == <<[Material |-> MatA, Semana |-> Sem2, Demanda_semanal |-> F(150)],
                 [Material |-> MatA, Semana |-> Sem1, Demanda_semanal |-> F(100)]>>

EjemploCap ==
    [cols |-> CapCols,
     rows |-> <<[Material |-> MatA, Unidades_por_hora |-> F(10), Unidades_por_pallet |-> F(0),
                 Inventario_inicial |-> F(0), Valor_inventario_inicial |-> F(0),
                 Costo_variable_unitario |-> F(2), Inventario_promedio |-> F(10)]>>]

EjemploDispRows == <<[Semana |-> <<Blank>> \o Sem1, Paro_programado |-> F(10), No_paro |-> F(10)],
                     [Semana |-> Sem2, Paro_programado |-> F(10), No_paro |-> F(10)]>>

NoneMat == <<"None">>

\* The sheets as loaded.  Every input is explored with the main parameter
\* sheet and both availability columns; every parameter sheet and every set
\* of availability columns is explored on the input of the worked example.
Init ==
    /\ pc = "params"
    /\ \/ \E prod \in ProdTablas, cap \in CapTablas,
             disp \in DispTablas({{"Paro_programado", "No_paro"}}) :
             /\ df_prod = prod
             /\ df_cap = cap
             /\ df_disp_raw = disp
             /\ df_params = ParamsPrincipal
       \/ \E cols \in SUBSET {"Paro_programado", "No_paro"}, params \in ParamTablas :
             /\ df_prod = EjemploProd
             /\ df_cap = EjemploCap
             /\ df_disp_raw = [cols |-> cols, rows |-> EjemploDispRows]
             /\ df_params = params
    /\ horas_por_turno = NumCell(NaN)
    /\ costo_fijo_param = NumCell(NaN)
    /\ tasa_costo_capital = NumCell(NaN)
    /\ df_base_materiales = <<>>
    /\ suma_inv_promedio_objetivo = NaN
    /\ suma_valor_inicial_maestro = NaN
    /\ esc = 0
    /\ df_final = <<>>
    /\ i = 0
    /\ prev_material = NoneMat
    /\ prev_final_und = Zero
    /\ prev_final_val = Zero
    /\ total_qty = Zero
    /\ qty_sold = Zero
    /\ lista_materiales = <<>>
    /\ lista_semanal = <<>>
    /\ tabla_comparativa = <<>>
    /\ mejores = <<>>
    /\ ahorro = NaN

----------------------------------------------------------------------------
(* Actions                                                                 *)

\* lines 141-153
ResolverParametros ==
    /\ pc = "params"
    /\ LET tabla == StripParametro(df_params)
       IN  /\ df_params' = tabla
           /\ horas_por_turno' = obtener_param(tabla, NomHoras, NumCell(F(DefHoras)))
           /\ costo_fijo_param' = obtener_param(tabla, NomCostoFijo, NumCell(F(DefCostoFijo)))
           /\ tasa_costo_capital' = obtener_param(tabla, NomCapital, NumCell(DefCapital))
    /\ pc' = "prep"
    /\ UNCHANGED <<total_qty, qty_sold, df_prod, df_cap, df_disp_raw, df_base_materiales,
                   suma_inv_promedio_objetivo, suma_valor_inicial_maestro, esc, df_final,
                   i, prev_material, prev_final_und, prev_final_val, lista_materiales,
                   lista_semanal, tabla_comparativa, mejores, ahorro>>

\* lines 156-176
ConstruirBase ==
    /\ pc = "prep"
    /\ df_prod' = PrepararProd(df_prod)
    /\ df_cap' = PrepararCap(df_cap)
    /\ df_disp_raw' = PrepararDisp(df_disp_raw)
    /\ LET base == ConstruirBaseMateriales(df_prod, df_cap)
       IN  /\ df_base_materiales' = base
           /\ suma_inv_promedio_objetivo' = SumaPrimeros(base, "Inventario_promedio")
           /\ suma_valor_inicial_maestro' = SumaPrimeros(base, "Valor_inventario_inicial")
    /\ esc' = 1
    /\ pc' = "ejec"
    /\ UNCHANGED <<total_qty, qty_sold, df_params, horas_por_turno, costo_fijo_param, tasa_costo_capital,
                   df_final, i, prev_material, prev_final_und, prev_final_val,
                   lista_materiales, lista_semanal, tabla_comparativa, mejores, ahorro>>

\* the scenario runs of lines 302-316, in order
Plan(disp) ==
    (IF "Paro_programado" \in disp.cols
     THEN <<[nombre |-> "Paro Programado", col |-> "Paro_programado", modo_demanda |-> FALSE]>>
     ELSE <<>>)
    \o (IF "No_paro" \in disp.cols
        THEN <<[nombre |-> "No Paro (Full)", col |-> "No_paro", modo_demanda |-> FALSE]>>
        ELSE <<>>)
    \o <<[nombre |-> "Siguiendo Demanda", col |-> "Semana", modo_demanda |-> TRUE]>>

\* df_disp_raw[['Semana', col]].rename(columns={col: 'Turnos disponibles'})
DispEscenario(disp, e) ==
    IF e.modo_demanda THEN <<>>
    ELSE [k \in 1..Len(disp.rows) |->
            [Semana |-> disp.rows[k].Semana, Turnos_disponibles |-> disp.rows[k][e.col]]]

NumDe(cell) == IF cell.t = "num" THEN cell.num ELSE Zero

\* df_final of the current run as lines 180-221 leave it
DfAsignado ==
    AsignarHoras(df_base_materiales, DispEscenario(df_disp_raw, Plan(df_disp_raw)[esc]),
                 Plan(df_disp_raw)[esc].modo_demanda, NumDe(horas_por_turno),
                 NumDe(costo_fijo_param))

\* no week of df produces units (the lambda of lines 212 and 275 never divides)
SinProduccion(df) ==
    \A k \in 1..Len(df) :
        ~Gt(SumSkipNa(Col(FilasSemana(df, df[k].Semana), "Unidades_A_Producir")), Zero)

\* lines 180-221 raise no TypeError: hours per shift is a number, and the fixed
\* cost is a number or is never divided
AsignarPosible ==
    /\ horas_por_turno.t = "num"
    /\ costo_fijo_param.t = "num" \/ SinProduccion(DfAsignado)

\* the loop state carried over from the previous run
EstadoPrevioHeredado == <<prev_material, prev_final_und, prev_final_val>>

\* prev_material = None; prev_final_und = 0.0; prev_final_val = 0.0
EstadoPrevioInicial == <<NoneMat, Zero, Zero>>

\* calcular_escenario, lines 180-225: the allocation of the run's hours
Asignar ==
    /\ pc = "ejec"
    /\ esc <= Len(Plan(df_disp_raw))
    /\ AsignarPosible
    /\ costo_fijo_param.t = "num" => Le(costo_fijo_param.num, F(MaxCostoFijo))
    /\ df_final' = DfAsignado
    /\ i' = 1
    /\ prev_material' = EstadoPrevioInicial[1]
    /\ prev_final_und' = EstadoPrevioInicial[2]
    /\ prev_final_val' = EstadoPrevioInicial[3]
    /\ pc' = "roll"
    /\ UNCHANGED <<total_qty, qty_sold, df_prod, df_cap, df_disp_raw, df_params, horas_por_turno,
                   costo_fijo_param, tasa_costo_capital, df_base_materiales,
                   suma_inv_promedio_objetivo, suma_valor_inicial_maestro, esc,
                   lista_materiales, lista_semanal, tabla_comparativa, mejores, ahorro>>

\* a TypeError in lines 180-221, caught at line 399
FallarAsignar ==
    /\ pc = "ejec"
    /\ esc <= Len(Plan(df_disp_raw))
    /\ ~AsignarPosible
    /\ pc' = "error"
    /\ UNCHANGED <<total_qty, qty_sold, df_prod, df_cap, df_disp_raw, df_params, horas_por_turno,
                   costo_fijo_param, tasa_costo_capital, df_base_materiales,
                   suma_inv_promedio_objetivo, suma_valor_inicial_maestro, esc, df_final,
                   i, prev_material, prev_final_und, prev_final_val, lista_materiales,
                   lista_semanal, tabla_comparativa, mejores, ahorro>>

\* calcular_escenario, lines 227-262: one iteration of the rollforward loop
Rollforward ==
    /\ pc = "roll"
    /\ i <= Len(df_final)
    /\ LET paso == PasoRollforward(df_final[i], prev_material, prev_final_und, prev_final_val)
       IN  /\ df_final' = [df_final EXCEPT ![i] = paso.row]
           /\ total_qty' = paso.total_qty
           /\ qty_sold' = paso.qty_sold
           /\ prev_material' = paso.row.Material
           /\ prev_final_und' = paso.row.Inv_Final_Und
           /\ prev_final_val' = paso.row.Inv_Final_Valor
    /\ i' = i + 1
    /\ UNCHANGED <<pc, df_prod, df_cap, df_disp_raw, df_params, horas_por_turno,
                   costo_fijo_param, tasa_costo_capital, df_base_materiales,
                   suma_inv_promedio_objetivo, suma_valor_inicial_maestro, esc,
                   lista_materiales, lista_semanal, tabla_comparativa, mejores, ahorro>>

\* lines 264-295 raise no TypeError
AgregarPosible == costo_fijo_param.t = "num" /\ tasa_costo_capital.t = "num"

\* calcular_escenario, lines 264-295, and the append of lines 306, 312, 316;
\* the run's material table is kept with its Escenario column held once
Agregar ==
    /\ pc = "roll"
    /\ i > Len(df_final)
    /\ AgregarPosible
    /\ LET nombre == Plan(df_disp_raw)[esc].nombre
       IN  /\ lista_materiales' = Append(lista_materiales,
                  [Escenario |-> nombre, filas |-> df_final])
           /\ lista_semanal' = Append(lista_semanal,
                  ResumenAgrupado(df_final, nombre, horas_por_turno.num,
                                  costo_fijo_param.num, tasa_costo_capital.num,
                                  suma_valor_inicial_maestro, suma_inv_promedio_objetivo))
    /\ esc' = esc + 1
    /\ pc' = "ejec"
    /\ UNCHANGED <<total_qty, qty_sold, df_prod, df_cap, df_disp_raw, df_params, horas_por_turno,
                   costo_fijo_param, tasa_costo_capital, df_base_materiales,
                   suma_inv_promedio_objetivo, suma_valor_inicial_maestro, df_final,
                   i, prev_material, prev_final_und, prev_final_val,
                   tabla_comparativa, mejores, ahorro>>

\* a TypeError in lines 264-295, caught at line 399
FallarAgregar ==
    /\ pc = "roll"
    /\ i > Len(df_final)
    /\ ~AgregarPosible
    /\ pc' = "error"
    /\ UNCHANGED <<total_qty, qty_sold, df_prod, df_cap, df_disp_raw, df_params, horas_por_turno,
                   costo_fijo_param, tasa_costo_capital, df_base_materiales,
                   suma_inv_promedio_objetivo, suma_valor_inicial_maestro, esc, df_final,
                   i, prev_material, prev_final_und, prev_final_val, lista_materiales,
                   lista_semanal, tabla_comparativa, mejores, ahorro>>

\* lines 318-360: the comparison of the scenarios
Comparar ==
    /\ pc = "ejec"
    /\ esc > Len(Plan(df_disp_raw))
    /\ LET tabla == TablaComparativa(Concat(lista_semanal))
           m == Mejores(tabla)
       IN  /\ tabla_comparativa' = tabla
           /\ mejores' = m
           /\ ahorro' = Ahorro(m)
    /\ pc' = "done"
    /\ UNCHANGED <<total_qty, qty_sold, df_prod, df_cap, df_disp_raw, df_params, horas_por_turno,
                   costo_fijo_param, tasa_costo_capital, df_base_materiales,
                   suma_inv_promedio_objetivo, suma_valor_inicial_maestro, esc, df_final,
                   i, prev_material, prev_final_und, prev_final_val, lista_materiales,
                   lista_semanal>>

Next ==
    \/ ResolverParametros
    \/ ConstruirBase
    \/ Asignar
    \/ FallarAsignar
    \/ Rollforward
    \/ Agregar
    \/ FallarAgregar
    \/ Comparar

Spec == Init /\ [][Next]_vars

----------------------------------------------------------------------------
(* Properties                                                              *)

\* the material tables of the runs that have completed
Corridas == {lista_materiales[k].filas : k \in 1..Len(lista_materiales)}

\* the rows of df that hold material m in a week before week s
Anteriores(df, m, s) ==
    {j \in 1..Len(df) : df[j].Material = m /\ Lt(df[j].Semana_Num, s)}

\* the row of the set js of rows of df with the latest week
Ultima(df, js) ==
    CHOOSE j \in js : \A j2 \in js : ~Lt(df[j].Semana_Num, df[j2].Semana_Num)

\* C1: in every completed run, the opening inventory (units, value) of a
\* material's row is the material's static opening inventory when no earlier
\* week of that material exists, and otherwise the closing inventory (units,
\* value) of the material's row of the immediately preceding week
C1_Continuidad ==
    \A df \in Corridas : \A k \in 1..Len(df) :
        LET ant == Anteriores(df, df[k].Material, df[k].Semana_Num)
        IN  IF ant = {}
            THEN /\ df[k].Inv_Inicial_Und = df[k].Inventario_inicial
                 /\ df[k].Inv_Inicial_Valor = df[k].Valor_inventario_inicial
            ELSE /\ df[k].Inv_Inicial_Und = df[Ultima(df, ant)].Inv_Final_Und
                 /\ df[k].Inv_Inicial_Valor = df[Ultima(df, ant)].Inv_Final_Valor

\* C1 witness: a completed run of two materials where the first material closes
\* its first week with stock and opens its second week with it, closes its last
\* week with stock, and the second material opens from its own static data
C1_Testigo ==
    \E df \in Corridas :
        /\ Len(df) = 4
        /\ df[1].Material = df[2].Material
        /\ df[2].Material # df[3].Material
        /\ Gt(df[1].Inv_Final_Und, Zero)
        /\ df[2].Inv_Inicial_Und = df[1].Inv_Final_Und
        /\ Gt(df[2].Inv_Final_Und, Zero)
        /\ df[3].Inv_Inicial_Und = Zero

\* sum over the materials of week sem of column c, as pandas sums (NaN skipped)
SumaSemana(df, sem, c) == SumSkipNa(Col(FilasSemana(df, sem), c))

\* the max(., 0) clamp binds on row r: Horas_Necesarias + Horas_Ajuste < 0
ClampActivo(r) == Lt(Add(r.Horas_Necesarias, r.Horas_Ajuste), Zero)

\* the clamp binds on some material of week sem
ClampEnSemana(df, sem) ==
    \E j \in 1..Len(df) : df[j].Semana = sem /\ ClampActivo(df[j])

\* C2 as stated, on weeks whose required hours are all finite and whose
\* available hours are not negative: the allocated hours of a week sum to the
\* week's available hours when no clamp binds, and to at most the available
\* hours when a clamp binds
C2_Original ==
    \A df \in Corridas : \A k \in 1..Len(df) :
        LET sem == df[k].Semana
            suma == SumaSemana(df, sem, "Horas_Finales_Asignadas")
        IN  (/\ \A j \in 1..Len(df) :
                    df[j].Semana = sem => IsFinite(df[j].Horas_Necesarias)
             /\ Le(Zero, df[k].Horas_Capacidad_Total))
            => IF ClampEnSemana(df, sem)
               THEN Le(suma, df[k].Horas_Capacidad_Total)
               ELSE suma = df[k].Horas_Capacidad_Total

\* C2 amended: in a week whose total required hours is finite and not 0 the
\* allocated hours sum to at least the available hours, and to exactly the
\* available hours if and only if no clamp binds; in a week whose total required
\* hours is 0 every material is allocated its own required hours (0, or NaN)
\* whatever the available hours; in a week whose total required hours is
\* infinite every allocated hours value is NaN
C2_Conservacion ==
    \A df \in Corridas : \A k \in 1..Len(df) :
        LET sem == df[k].Semana
            total == df[k].Total_Horas_Req_Semana
            cap == df[k].Horas_Capacidad_Total
            suma == SumaSemana(df, sem, "Horas_Finales_Asignadas")
        IN  /\ ~IsNaN(total)
            /\ (IsFinite(total) /\ total # Zero) =>
                   /\ Le(cap, suma)
                   /\ (suma = cap) <=> ~ClampEnSemana(df, sem)
            /\ total = Zero =>
                   /\ df[k].Horas_Finales_Asignadas = df[k].Horas_Necesarias
                   /\ df[k].Horas_Necesarias \in {Zero, NaN}
            /\ IsInf(total) => IsNaN(df[k].Horas_Finales_Asignadas)

\* C2 witness: completed runs hold a week of two materials with positive
\* required hours whose allocation is spread to available hours different from
\* the required total, and a week where the clamp binds and the allocated hours
\* exceed the (negative) available hours
C2_Testigo ==
    /\ \E df \in Corridas : \E k, j \in 1..Len(df) :
          /\ k # j
          /\ df[k].Semana = df[j].Semana
          /\ Gt(df[k].Horas_Necesarias, Zero)
          /\ Gt(df[j].Horas_Necesarias, Zero)
          /\ df[k].Horas_Capacidad_Total # df[k].Total_Horas_Req_Semana
          /\ ~ClampEnSemana(df, df[k].Semana)
          /\ SumaSemana(df, df[k].Semana, "Horas_Finales_Asignadas") = df[k].Horas_Capacidad_Total
    /\ \E df \in Corridas : \E k \in 1..Len(df) :
          /\ ClampActivo(df[k])
          /\ Gt(SumaSemana(df, df[k].Semana, "Horas_Finales_Asignadas"),
                df[k].Horas_Capacidad_Total)

\* the weekly summaries of the runs that have completed
Resumenes == {lista_semanal[k] : k \in 1..Len(lista_semanal)}

\* every numeric field of the record r is a finite number
TodoFinito(r) ==
    \A c \in DOMAIN r \ {"Material", "Semana", "Escenario"} : IsFinite(r[c])

\* C3 as stated: no field of a material-week record or of a weekly summary
\* record of a completed run holds an undefined (NaN) or infinite value
C3_SinNoNumericos ==
    /\ \A df \in Corridas : \A k \in 1..Len(df) : TodoFinito(df[k])
    /\ \A rs \in Resumenes : \A k \in 1..Len(rs) : TodoFinito(rs[k])

\* C4: in every row of every completed run the weighted-average cost is finite
\* and not negative; it is (opening value + produced units x unit total cost) /
\* (opening units + produced units) when that quantity is > 0, and the week's
\* unit total cost otherwise
C4_CostoPromedio ==
    \A df \in Corridas : \A k \in 1..Len(df) :
        LET r == df[k]
            qty == Add(r.Inv_Inicial_Und, r.Unidades_A_Producir)
            val == Add(r.Inv_Inicial_Valor, Mul(r.Unidades_A_Producir, r.Costo_unitario_total))
        IN  /\ IsFinite(r.Costo_Promedio_Ponderado)
            /\ Le(Zero, r.Costo_Promedio_Ponderado)
            /\ r.Costo_Promedio_Ponderado =
                   IF Gt(qty, Zero) THEN Div(val, qty) ELSE r.Costo_unitario_total

\* C4 witness: a completed run holds a row that blends an opening stock with a
\* production of a different unit cost, and a row with neither stock nor
\* production whose cost is the week's unit total cost
C4_Testigo ==
    \E df \in Corridas :
        /\ \E k \in 1..Len(df) :
              /\ Gt(df[k].Inv_Inicial_Und, Zero)
              /\ Gt(df[k].Unidades_A_Producir, Zero)
              /\ df[k].Costo_Promedio_Ponderado # df[k].Costo_unitario_total
              /\ Gt(df[k].Costo_Promedio_Ponderado, Zero)
        /\ \E k \in 1..Len(df) :
              /\ Add(df[k].Inv_Inicial_Und, df[k].Unidades_A_Producir) = Zero
              /\ df[k].Costo_Promedio_Ponderado = df[k].Costo_unitario_total

\* C5 as stated, after each step of the rollforward loop on the row just
\* written: the quantity sold is at most the supply (opening + produced units)
\* and at most the week's demand, it is one of the two, and the closing quantity
\* (supply - sold) is at least 0
C5_VentaTopada ==
    (pc = "roll" /\ i > 1) =>
        LET r == df_final[i - 1]
        IN  /\ total_qty = Add(r.Inv_Inicial_Und, r.Unidades_A_Producir)
            /\ r.Inv_Final_Und = Sub(total_qty, qty_sold)
            /\ Le(qty_sold, total_qty)
            /\ Le(qty_sold, r.Demanda_semanal)
            /\ qty_sold \in {total_qty, r.Demanda_semanal}
            /\ Le(Zero, r.Inv_Final_Und)

\* C6 as stated: in every row of the completed demand-driven run the available
\* hours equal the total required hours, the gap is 0 and the allocated hours
\* equal the required hours
C6_SiguiendoDemanda ==
    \A k \in 1..Len(lista_materiales) :
        lista_materiales[k].Escenario = "Siguiendo Demanda" =>
            \A j \in 1..Len(lista_materiales[k].filas) :
                LET r == lista_materiales[k].filas[j]
                IN  /\ r.Horas_Capacidad_Total = r.Total_Horas_Req_Semana
                    /\ r.Diferencia_Horas = Zero
                    /\ r.Horas_Finales_Asignadas = r.Horas_Necesarias

\* C7: once the scenarios are compared, the first row of mejores (the scenario
\* shown as 'Mejor Escenario') is a computed scenario whose Impacto Total FCL is
\* the least of all computed scenarios, and ahorro is the greatest Impacto Total
\* FCL minus the least, and is not negative
C7_MejorEscenario ==
    pc = "done" =>
        /\ \E k \in 1..Len(tabla_comparativa) : mejores[1] = tabla_comparativa[k]
        /\ \A k \in 1..Len(tabla_comparativa) :
              Le(mejores[1].Impacto_Total_FCL, tabla_comparativa[k].Impacto_Total_FCL)
        /\ \E p \in 1..Len(tabla_comparativa) :
              /\ \A k \in 1..Len(tabla_comparativa) :
                    Le(tabla_comparativa[k].Impacto_Total_FCL,
                       tabla_comparativa[p].Impacto_Total_FCL)
              /\ ahorro = Sub(tabla_comparativa[p].Impacto_Total_FCL,
                              mejores[1].Impacto_Total_FCL)
        /\ Le(Zero, ahorro)

\* C7 witness: three scenarios are compared, the best one is not the first row
\* of the comparison table, and the difference to the worst is positive
C7_Testigo ==
    /\ pc = "done"
    /\ Len(tabla_comparativa) = 3
    /\ mejores[1].Escenario # tabla_comparativa[1].Escenario
    /\ Lt(mejores[1].Impacto_Total_FCL, mejores[2].Impacto_Total_FCL)
    /\ Lt(mejores[2].Impacto_Total_FCL, mejores[3].Impacto_Total_FCL)
    /\ Gt(ahorro, Zero)

\* the inputs are those of the worked example, with 8 hours per shift
EsEjemplo ==
    /\ df_base_materiales = ConstruirBaseMateriales(EjemploProd, EjemploCap)
    /\ df_disp_raw.rows = PrepararDisp([cols |-> DispColsTodas, rows |-> EjemploDispRows]).rows
    /\ horas_por_turno = NumCell(F(8))

\* C8: on the worked example every completed availability-constrained run has
\* required hours 10 and 15, available hours 80 and 80, allocated hours that are
\* not negative, produced units at least the demand, a week-1 weighted-average
\* cost equal to the week-1 unit total cost, 100 units sold in week 1 (the
\* closing units are the produced units less 100) and a week-2 opening equal to
\* the week-1 closing; and the quantity sold by the loop in week 1 is 100
C8_Ejemplo ==
    EsEjemplo =>
        /\ \A n \in 1..Len(lista_materiales) :
              lista_materiales[n].Escenario # "Siguiendo Demanda" =>
                 LET df == lista_materiales[n].filas
                 IN  /\ Len(df) = 2
                     /\ df[1].Demanda_semanal = F(100) /\ df[2].Demanda_semanal = F(150)
                     /\ df[1].Horas_Necesarias = F(10) /\ df[2].Horas_Necesarias = F(15)
                     /\ df[1].Horas_Capacidad_Total = F(80)
                     /\ df[2].Horas_Capacidad_Total = F(80)
                     /\ \A k \in 1..2 :
                           /\ Le(Zero, df[k].Horas_Finales_Asignadas)
                           /\ Le(df[k].Demanda_semanal, df[k].Unidades_A_Producir)
                     /\ df[1].Costo_Promedio_Ponderado = df[1].Costo_unitario_total
                     /\ df[1].Inv_Inicial_Und = Zero /\ df[1].Inv_Inicial_Valor = Zero
                     /\ df[1].Inv_Final_Und = Sub(df[1].Unidades_A_Producir, F(100))
                     /\ df[2].Inv_Inicial_Und = df[1].Inv_Final_Und
                     /\ df[2].Inv_Inicial_Valor = df[1].Inv_Final_Valor
        /\ (pc = "roll" /\ i = 2 /\ ~Plan(df_disp_raw)[esc].modo_demanda) =>
              /\ qty_sold = F(100)
              /\ qty_sold = PyMin(F(100), df_final[1].Unidades_A_Producir)

\* C8 witness: the worked example with 8 hours per shift has completed an
\* availability-constrained run that produced 800 units in each week
C8_Testigo ==
    /\ EsEjemplo
    /\ \E n \in 1..Len(lista_materiales) :
          /\ lista_materiales[n].Escenario = "Paro Programado"
          /\ lista_materiales[n].filas[1].Unidades_A_Producir = F(800)
          /\ lista_materiales[n].filas[2].Unidades_A_Producir = F(800)
          /\ lista_materiales[n].filas[2].Inv_Inicial_Und = F(700)

\* the rows of the stripped parameter sheet named nombre
FilasDe(nombre) == SelectSeq(df_params, LAMBDA r : r.Parametro = nombre)

\* the value v does not coerce to a number: a text that float() rejects once
\* its commas are replaced by periods
NoNumerico(v) == v.t = "str" /\ ~ParseFloat(Replace(v.str, ",", ".")).ok

\* the three parameters: name, resolved value, hardcoded default
Parametros ==
    {<<NomHoras, horas_por_turno, NumCell(F(DefHoras))>>,
     <<NomCostoFijo, costo_fijo_param, NumCell(F(DefCostoFijo))>>,
     <<NomCapital, tasa_costo_capital, NumCell(DefCapital)>>}

\* C9 as stated: once the parameters are resolved, each of the three is its
\* hardcoded default when the sheet has no row of its name and also when the
\* value of its first row is non-numeric
C9_Original ==
    pc # "params" =>
        \A p \in Parametros :
            (FilasDe(p[1]) = <<>> \/ NoNumerico(FilasDe(p[1])[1].Valor)) => p[2] = p[3]

\* C9 amended: once the parameters are resolved, each of the three is its
\* hardcoded default (8, 742373394, 0.0029) when the sheet has no row of its
\* name; when the value of its first row is non-numeric it is that value itself,
\* as text with its commas replaced by periods, and not the default
C9_Defaults ==
    pc # "params" =>
        \A p \in Parametros :
            /\ FilasDe(p[1]) = <<>> => p[2] = p[3]
            /\ (FilasDe(p[1]) # <<>> /\ NoNumerico(FilasDe(p[1])[1].Valor)) =>
                   /\ p[2] = StrCell(Replace(FilasDe(p[1])[1].Valor.str, ",", "."))
                   /\ p[2] # p[3]

\* C9 witness: the parameters are resolved from a sheet with no 'Horas por
\* turno' row and a non-numeric 'Costo fijo', giving 8 hours per shift and the
\* text "n.a" as fixed cost
C9_Testigo ==
    /\ pc # "params"
    /\ FilasDe(NomHoras) = <<>>
    /\ horas_por_turno = NumCell(F(8))
    /\ FilasDe(NomCostoFijo) # <<>>
    /\ NoNumerico(FilasDe(NomCostoFijo)[1].Valor)
    /\ costo_fijo_param = StrCell(<<"n", ".", "a">>)
    /\ FilasDe(NomCapital) = <<>>
    /\ tasa_costo_capital = NumCell(<<29, 10000>>)

\* df_final after the whole rollforward loop run from row k with the loop state
\* (pm, pu, pv)
RECURSIVE RollDesde(_, _, _, _, _)
RollDesde(df, k, pm, pu, pv) ==
    IF k > Len(df) THEN df
    ELSE LET paso == PasoRollforward(df[k], pm, pu, pv)
         IN  RollDesde([df EXCEPT ![k] = paso.row], k + 1, paso.row.Material,
                       paso.row.Inv_Final_Und, paso.row.Inv_Final_Valor)

\* the material table of plan entry e computed on its own from the material
\* base, the availability table and the resolved parameters
CorridaAislada(e) ==
    RollDesde(AsignarHoras(df_base_materiales, DispEscenario(df_disp_raw, e),
                           e.modo_demanda, NumDe(horas_por_turno),
                           NumDe(costo_fijo_param)),
              1, NoneMat, Zero, Zero)

\* the records of the completed runs are those each scenario yields on its own
CorridasAisladas ==
    pc = "ejec" =>
        \A k \in 1..Len(lista_materiales) :
            lista_materiales[k].filas = CorridaAislada(Plan(df_disp_raw)[k])

\* a step of a scenario run leaves the material base, the availability table
\* and the resolved parameters as they were
MarcoCorrida ==
    pc \in {"ejec", "roll"} =>
        UNCHANGED <<df_base_materiales, df_disp_raw, df_params, horas_por_turno,
                    costo_fijo_param, tasa_costo_capital,
                    suma_inv_promedio_objetivo, suma_valor_inicial_maestro>>

\* C10: a step of a scenario run changes neither the material base, nor the
\* availability table, nor the resolved parameters, and the records of every
\* completed run are those its scenario yields when computed on its own from
\* these inputs with a fresh rollforward state, whatever runs came before (so
\* two runs of the same scenario inputs give the same records)
C10_SinEstadoCompartido == [][MarcoCorrida]_vars /\ []CorridasAisladas

\* C10 witness: two runs on the same shifts have completed one after the other
\* with the same records, the first of them having closed its last week with
\* stock while the second opened its first week with none
C10_Testigo ==
    /\ pc = "ejec"
    /\ Len(lista_materiales) >= 2
    /\ lista_materiales[1].filas = lista_materiales[2].filas
    /\ Gt(lista_materiales[1].filas[Len(lista_materiales[1].filas)].Inv_Final_Und, Zero)
    /\ lista_materiales[2].filas[1].Material
           = lista_materiales[1].filas[Len(lista_materiales[1].filas)].Material
    /\ lista_materiales[2].filas[1].Inv_Inicial_Und = Zero

\* the value a row takes in: opening value + produced units x unit total cost
ValorEntrada(r) ==
    Add(r.Inv_Inicial_Valor, Mul(r.Unidades_A_Producir, r.Costo_unitario_total))

\* the value a row gives out: cost of goods sold + closing value
ValorSalida(r) == Add(r.Costo_Mercancia_Vendida, r.Inv_Final_Valor)

\* C11 as stated, on the rows whose produced units are a finite number: the
\* value taken in is a number and equals the value given out, whatever the
\* total quantity of the row
C11_Original ==
    \A df \in Corridas : \A k \in 1..Len(df) :
        IsFinite(df[k].Unidades_A_Producir) =>
            /\ IsFinite(ValorEntrada(df[k]))
            /\ ValorEntrada(df[k]) = ValorSalida(df[k])

\* C11 amended: in every row of every completed run the total quantity
\* (opening + produced units) is positive, 0 or NaN.  When it is positive the
\* value taken in equals cost of goods sold + closing value.  When it is 0
\* nothing is sold and nothing is left, so cost of goods sold and closing value
\* are both 0 and the value is conserved only if the opening value is 0.  When
\* it is NaN (units/hour 0) the closing value is NaN and the cost of goods sold
\* is the demand at the week's unit total cost
C11_Conservacion ==
    \A df \in Corridas : \A k \in 1..Len(df) :
        LET r == df[k]
            total == Add(r.Inv_Inicial_Und, r.Unidades_A_Producir)
        IN  /\ IsNaN(total) \/ total = Zero \/ (IsFinite(total) /\ Gt(total, Zero))
            /\ Gt(total, Zero) =>
                   /\ IsFinite(ValorEntrada(r))
                   /\ ValorEntrada(r) = ValorSalida(r)
            /\ total = Zero =>
                   /\ r.Costo_Mercancia_Vendida = Zero
                   /\ r.Inv_Final_Valor = Zero
                   /\ (ValorEntrada(r) = ValorSalida(r)) <=> (r.Inv_Inicial_Valor = Zero)
            /\ IsNaN(total) =>
                   /\ IsNaN(r.Inv_Final_Valor)
                   /\ r.Costo_Mercancia_Vendida
                          = Mul(r.Demanda_semanal, r.Costo_unitario_total)

\* C11 witness: a completed run holds a row with stock and production that
\* sells part of its supply and keeps the rest, its value conserved, and a row
\* with no units at all whose opening value of 4 is neither sold nor kept
C11_Testigo ==
    \E df \in Corridas :
        /\ \E k \in 1..Len(df) :
              /\ Gt(df[k].Unidades_A_Producir, Zero)
              /\ Gt(df[k].Costo_Mercancia_Vendida, Zero)
              /\ Gt(df[k].Inv_Final_Valor, Zero)
              /\ ValorEntrada(df[k]) = ValorSalida(df[k])
        /\ \E k \in 1..Len(df) :
              /\ Add(df[k].Inv_Inicial_Und, df[k].Unidades_A_Producir) = Zero
              /\ df[k].Inv_Inicial_Valor = F(4)
              /\ ValorSalida(df[k]) = Zero

====
